---- MODULE Spec2Model ----
(***************************************************************************)
(* Model of the fault-report HTTP service of src/index.js: POST /reports,  *)
(* GET /reports and PUT /reports/:id/status over a filesystem store (one   *)
(* JSON file per report under reports/, one binary file per attachment     *)
(* under uploads/).  Each handler is an async function: it runs            *)
(* synchronously up to its next `await`, so the model has one action per   *)
(* await point of each handler (the awaited I/O takes effect and the       *)
(* handler runs on to its next await or to its response), and requests of  *)
(* different clients interleave at those points.                           *)
(***************************************************************************)
EXTENDS Integers, Sequences, FiniteSets, TLC

(* ------------------------------ bounds -------------------------------- *)
\* Number of requests served concurrently.
NumProcs == 2
\* Number of POST /reports requests that pass validation in one run.
MaxPosts == 2
\* Number of requests, of any kind, that get past their first check and
\* start filesystem work in one run.
MaxRequests == 3
\* The same, in the runs that inject I/O errors.
MaxFaultyRequests == 2
\* Date.now() ranges over 0..MaxTime.
MaxTime == 1
\* Math.floor(Math.random() * 10000) ranges over 0..RandBound-1.
RandBound == 1

Procs == 1..NumProcs

(* --------------------------- JavaScript values ------------------------ *)
\* A string is a sequence of tokens (characters, or the literal pieces a
\* regular expression looks for); an object is a sequence of <<key, value>>
\* pairs in insertion order.
Undefined == <<"undefined">>
Null == <<"null">>
Str(s) == <<"str", s>>
Arr(a) == <<"arr", a>>

IsStr(v) == v[1] = "str"
IsArray(v) == v[1] = "arr"

\* !v
Falsy(v) == v[1] = "undefined" \/ v[1] = "null" \/ (IsStr(v) /\ v[2] = <<>>)

\* v.length < n   (undefined < n is false)
LengthLt(v, n) == (IsStr(v) \/ IsArray(v)) /\ Len(v[2]) < n

Max(S) == CHOOSE x \in S : \A y \in S : y <= x
Min(S) == CHOOSE x \in S : \A y \in S : x <= y

\* obj[key]
Get(obj, key) ==
    LET at == {i \in 1..Len(obj) : obj[i][1] = key}
    IN  IF at = {} THEN Undefined ELSE obj[Min(at)][2]

\* obj[key] = val : in place when the key exists, appended otherwise
Put(obj, key, val) ==
    LET at == {i \in 1..Len(obj) : obj[i][1] = key}
    IN  IF at = {} THEN Append(obj, <<key, val>>)
        ELSE [obj EXCEPT ![Min(at)] = <<key, val>>]

\* JSON.stringify(obj, null, 2): keys in insertion order, undefined members
\* dropped.
JSONstringify(obj) ==
    <<"json", SelectSeq(obj, LAMBDA kv : kv[2][1] # "undefined")>>

\* JSON.parse(content)
ParseOk(content) == content[1] = "json"
JSONparse(content) == content[2]

(* ------------------------------ constants ----------------------------- *)
DataTok == "data:"
Base64Tok == ";base64,"

\* data:image/png;base64,QUJD
UriPngA == Str(<<DataTok, "image", "/", "png", Base64Tok, "Q", "U", "J", "D">>)
\* data:image/png;base64,QQ==
UriPngB == Str(<<DataTok, "image", "/", "png", Base64Tok, "Q", "Q", "=", "=">>)
\* data:image/jpeg;base64,QUJD
UriJpegA == Str(<<DataTok, "image", "/", "jpeg", Base64Tok, "Q", "U", "J", "D">>)
\* image/png;base64,QUJD   (no data: scheme)
UriNoScheme == Str(<<"image", "/", "png", Base64Tok, "Q", "U", "J", "D">>)
\* data:image/png;base64,   (empty payload)
UriNoPayload == Str(<<DataTok, "image", "/", "png", Base64Tok>>)

(* -------------------------- saveBase64Image --------------------------- *)
NoMatch == <<>>

\* base64String.match(/^data:(.+);base64,(.+)$/): both groups non-empty, the
\* first one greedy.
Match(s) ==
    LET cands == {i \in 3..(Len(s) - 1) : s[1] = DataTok /\ s[i] = Base64Tok}
    IN  IF cands = {} THEN NoMatch
        ELSE LET i == Max(cands)
             IN  <<SubSeq(s, 2, i - 1), SubSeq(s, i + 1, Len(s))>>

\* mimeType.split('/')[1], as the template string renders it
Extension(mimeType) ==
    LET sl == {i \in 1..Len(mimeType) : mimeType[i] = "/"}
    IN  IF sl = {} THEN <<"undefined">>
        ELSE LET a == Min(sl)
                 rest == {i \in sl : i > a}
                 b == IF rest = {} THEN Len(mimeType) + 1 ELSE Min(rest)
             IN  SubSeq(mimeType, a + 1, b - 1)

B64Alphabet == {"A", "D", "J", "Q", "U"}
B64Index(c) ==
    CASE c = "A" -> 0 [] c = "D" -> 3 [] c = "J" -> 9 [] c = "Q" -> 16
      [] c = "U" -> 20

RECURSIVE B64Bytes(_)
B64Bytes(cs) ==
    IF Len(cs) >= 4
    THEN LET n == B64Index(cs[1]) * 262144 + B64Index(cs[2]) * 4096
                  + B64Index(cs[3]) * 64 + B64Index(cs[4])
         IN  <<n \div 65536, (n \div 256) % 256, n % 256>>
             \o B64Bytes(SubSeq(cs, 5, Len(cs)))
    ELSE IF Len(cs) = 3
    THEN LET n == B64Index(cs[1]) * 1024 + B64Index(cs[2]) * 16
                  + B64Index(cs[3]) \div 4
         IN  <<n \div 256, n % 256>>
    ELSE IF Len(cs) = 2
    THEN <<B64Index(cs[1]) * 4 + B64Index(cs[2]) \div 16>>
    ELSE <<>>

\* Buffer.from(base64Data, 'base64'): decoding stops at the first '=',
\* characters outside the alphabet are skipped, no error is raised.
BufferFrom(base64Data) ==
    LET pads == {i \in 1..Len(base64Data) : base64Data[i] = "="}
        upto == IF pads = {} THEN Len(base64Data) ELSE Min(pads) - 1
    IN  B64Bytes(SelectSeq(SubSeq(base64Data, 1, upto),
                           LAMBDA c : c \in B64Alphabet))

\* `${prefix}-${Date.now()}-${Math.floor(Math.random() * 10000)}.${extension}`
Filename(prefix, t, r, extension) == <<prefix, "-", t, "-", r, ".">> \o extension

\* `/uploads/${filename}`
UploadRef(filename) == Str(<<"/uploads/">> \o filename)

FormatError == "Invalid base64 string format"
TypeError == "base64String.match is not a function"

\* The synchronous part of saveBase64Image, up to its await of fs.writeFile:
\* the error it throws, or the file it is about to write.
saveBase64Image(base64String, prefix, t, r) ==
    IF ~IsStr(base64String) THEN [throws |-> TRUE, message |-> TypeError]
    ELSE LET matches == Match(base64String[2])
         IN  IF matches = NoMatch
             THEN [throws |-> TRUE, message |-> FormatError]
             ELSE [throws |-> FALSE,
                   filepath |-> Filename(prefix, t, r, Extension(matches[1])),
                   buffer |-> BufferFrom(matches[2])]

(* ------------------------------- state -------------------------------- *)
VARIABLES
    reportsDir,   \* REPORTS_DIR exists
    uploadsDir,   \* UPLOADS_DIR exists
    reports,      \* files of REPORTS_DIR: <<name, suffix>> -> content
    uploads,      \* files of UPLOADS_DIR: filename -> bytes
    now,          \* the clock read by Date.now() and new Date()
    proc,         \* per request slot: where its handler is suspended, and its locals
    resp,         \* the response the last step sent, if it sent one
    issued,       \* identifiers uuidv4() has returned so far
    nPosts,       \* POST requests that passed validation so far
    nReqs,        \* requests that started filesystem work so far
    created,      \* history: id -> the record and attachments of its creation
    named,        \* history: filename -> how many attachments were given it
    putCount      \* history: id -> how many status updates have rewritten it

vars == <<reportsDir, uploadsDir, reports, uploads, now, proc, resp, issued,
          nPosts, nReqs, created, named, putCount>>

store == <<reportsDir, uploadsDir, reports, uploads>>
history == <<created, named, putCount>>
counters == <<nPosts, nReqs>>

Idle == [pc |-> "idle"]
NoResponse == [p |-> 0, op |-> "none", code |-> 0, io |-> FALSE]

\* the step sends no response
Silent == resp' = NoResponse

\* No request is in flight.  A request that fails its first check is
\* answered within the step that receives it and touches nothing, so where
\* it falls among the steps of other requests makes no difference: the
\* model lets such requests arrive when the server is quiet.
Quiet == \A q \in Procs : proc[q].pc = "idle"

\* Request slots are interchangeable: an arriving request takes the first
\* free one.
Free(p) ==
    /\ proc[p].pc = "idle"
    /\ \A q \in Procs : proc[q].pc = "idle" => p <= q

\* res.status(code).json(body).  Beside the status code and the body, the
\* response is logged with the request it answers (req) and whether an I/O
\* error caused it (io).
Answer(p, op, code, body, req, io) ==
    resp' = [p |-> p, op |-> op, code |-> code, body |-> body, req |-> req,
             io |-> io]

Respond(p, op, code, body, req) == Answer(p, op, code, body, req, FALSE)

\* a finite map extended or overwritten at one key
Write(files, name, content) ==
    [f \in DOMAIN files \cup {name} |-> IF f = name THEN content ELSE files[f]]

\* `${reportId}.json` under REPORTS_DIR
ReportPath(reportId) == <<reportId, ".json">>

\* file.endsWith('.json')
EndsWithJson(file) == file[2] = ".json"

(* ------------------------- initial filesystem ------------------------- *)
\* A record written before the status field existed, and a file of the
\* reports directory that is not a record.  Identifiers are strings of one
\* token.
IdStr(id) == Str(<<id>>)
LegacyId == 0
\* the legacy record and its attachments date from before the run
LegacyTime == -1
NewIds == 1..MaxPosts

LegacyRecord ==
    << <<"id", IdStr(LegacyId)>>,
       <<"ownerName", Str(<<"E", "v", "a">>)>>,
       <<"phoneNumber", Str(<<"7">>)>>,
       <<"licensePlate", Str(<<"X", "Y", "Z">>)>>,
       <<"faultDescription",
         Str(<<"f", "l", "a", "t", " ", "t", "y", "r", "e", "s">>)>>,
       <<"location", Null>>,
       <<"photos", Arr(<<>>)>>,
       <<"ownerSignature", UploadRef(Filename("ownerSign", LegacyTime, 0, <<"png">>))>>,
       <<"technicianSignature", UploadRef(Filename("techSign", LegacyTime, 0, <<"png">>))>>,
       <<"createdAt", Str(<<"T", LegacyTime>>)>> >>

\* the attachments of the legacy record: <<reference, data URI>>
LegacyAttachments ==
    << <<UploadRef(Filename("ownerSign", LegacyTime, 0, <<"png">>)), UriPngB>>,
       <<UploadRef(Filename("techSign", LegacyTime, 0, <<"png">>)), UriPngB>> >>

LegacyReports ==
    Write(Write(<<>>, ReportPath(LegacyId), JSONstringify(LegacyRecord)),
          <<LegacyId, ".bak">>, <<"text">>)

LegacyUploads ==
    Write(Write(<<>>, Filename("ownerSign", LegacyTime, 0, <<"png">>), <<65>>),
          Filename("techSign", LegacyTime, 0, <<"png">>), <<65>>)

\* Either a fresh deployment (neither directory exists yet: nothing but
\* ensureDirs creates them) or one that already holds a legacy record.
Init ==
    /\ \/ /\ reportsDir = FALSE /\ uploadsDir = FALSE
          /\ reports = <<>> /\ uploads = <<>>
          /\ created = <<>>
          /\ named = <<>>
       \/ /\ reportsDir = TRUE /\ uploadsDir = TRUE
          /\ reports = LegacyReports /\ uploads = LegacyUploads
          /\ created = Write(<<>>, LegacyId,
                             [data |-> LegacyRecord, att |-> LegacyAttachments,
                              nPhotos |-> 0])
          /\ named = [f \in DOMAIN LegacyUploads |-> 1]
    /\ now = 0
    /\ proc = [p \in Procs |-> Idle]
    /\ resp = NoResponse
    /\ issued = {}
    /\ nPosts = 0
    /\ nReqs = 0
    /\ putCount = <<>>

\* time passes
Tick ==
    /\ now < MaxTime
    /\ now' = now + 1
    /\ Silent
    /\ UNCHANGED <<store, proc, issued, counters, history>>

(* --------------------------- request bodies --------------------------- *)
GoodOwnerName == Str(<<"A", "l">>)
GoodPhoneNumber == Str(<<"5", "5", "5">>)
GoodLicensePlate == Str(<<"A", "B", "C">>)
GoodFaultDescription ==
    Str(<<"w", "o", "n", "t", " ", "s", "t", "a", "r", "t">>)

\* The required field `rule` (1..6, in the order of the checks) of a
\* request: valid, absent, or present but too short.
Required(rule, bad, absent) ==
    IF rule \notin bad
    THEN CASE rule = 1 -> GoodOwnerName
           [] rule = 2 -> GoodPhoneNumber
           [] rule = 3 -> GoodLicensePlate
           [] rule = 4 -> GoodFaultDescription
           [] rule = 5 -> UriPngA
           [] rule = 6 -> UriPngB
    ELSE IF absent THEN Undefined
    ELSE CASE rule = 1 -> Str(<<"A">>)
           [] rule = 3 -> Str(<<"A", "B">>)
           [] rule = 4 -> Str(<<"w", "o", "n", "t", " ", "s", "t", "a", "r">>)
           [] OTHER -> Str(<<>>)

Body(bad, absent, location, photos, ownerSignature, technicianSignature) ==
    [ownerName |-> Required(1, bad, absent),
     phoneNumber |-> Required(2, bad, absent),
     licensePlate |-> Required(3, bad, absent),
     faultDescription |-> Required(4, bad, absent),
     location |-> location,
     photos |-> photos,
     ownerSignature |->
         IF 5 \in bad THEN Required(5, bad, absent) ELSE ownerSignature,
     technicianSignature |->
         IF 6 \in bad THEN Required(6, bad, absent) ELSE technicianSignature]

Garage == Str(<<"g", "a", "r", "a", "g", "e">>)

\* Requests breaking one of the required-field rules with a value that is
\* too short, or lacking one required field and every later one, and requests
\* that pass them all: photos that is no array, two photos and a location,
\* a malformed second photo, a malformed owner or technician signature.
InvalidBodies ==
    {Body({rule}, FALSE, Undefined, Undefined, UriPngA, UriPngB) :
        rule \in 1..6}
    \cup {Body(rule..6, TRUE, Undefined, Undefined, UriPngA, UriPngB) :
            rule \in 1..6}

ValidBodies ==
    {Body({}, FALSE, Undefined, Str(<<"x">>), UriPngA, UriPngB),
     Body({}, FALSE, Garage, Arr(<<UriPngA, UriPngB>>), UriPngA, UriPngB),
     Body({}, FALSE, Undefined, Arr(<<UriJpegA, UriNoScheme>>), UriPngA, UriPngB),
     Body({}, FALSE, Undefined, Undefined, UriNoScheme, UriPngB),
     Body({}, FALSE, Undefined, Undefined, UriPngA, UriNoPayload)}

Bodies == InvalidBodies \cup ValidBodies

(* ----------------------------- POST /reports -------------------------- *)
NoError == "ok"

\* the rules of lines 53-58 with phoneNumber checked before ownerName
ValidatePhoneFirst(b) ==
    IF Falsy(b.phoneNumber)
        THEN "phoneNumber requerido"
    ELSE IF Falsy(b.ownerName) \/ LengthLt(b.ownerName, 2)
        THEN "ownerName invalido"
    ELSE IF Falsy(b.licensePlate) \/ LengthLt(b.licensePlate, 3)
        THEN "licensePlate invalido"
    ELSE IF Falsy(b.faultDescription) \/ LengthLt(b.faultDescription, 10)
        THEN "faultDescription invalido"
    ELSE IF Falsy(b.ownerSignature)
        THEN "ownerSignature requerida"
    ELSE IF Falsy(b.technicianSignature)
        THEN "technicianSignature requerida"
    ELSE "ok"

\* lines 53-58: the first failing rule's message
Validate(b) ==
    IF Falsy(b.ownerName) \/ LengthLt(b.ownerName, 2)
        THEN "ownerName invalido"
    ELSE IF Falsy(b.phoneNumber)
        THEN "phoneNumber requerido"
    ELSE IF Falsy(b.licensePlate) \/ LengthLt(b.licensePlate, 3)
        THEN "licensePlate invalido"
    ELSE IF Falsy(b.faultDescription) \/ LengthLt(b.faultDescription, 10)
        THEN "faultDescription invalido"
    ELSE IF Falsy(b.ownerSignature)
        THEN "ownerSignature requerida"
    ELSE IF Falsy(b.technicianSignature)
        THEN "technicianSignature requerida"
    ELSE NoError

\* uuidv4(): an identifier never returned before (identifiers are opaque:
\* they are numbered in the order they are issued)
uuidv4 == Min(NewIds \ issued)

\* new Date().toISOString()
ToISOString(t) == Str(<<"T", t>>)

Pending == Str(<<"pending">>)
Attended == Str(<<"attended">>)

\* the record of lines 80-92 created with status 'attended'
ReportDataAttended(body, reportId, photoFiles, ownerSignFile, technicianSignFile, t) ==
    << <<"id", IdStr(reportId)>>,
       <<"ownerName", body.ownerName>>,
       <<"phoneNumber", body.phoneNumber>>,
       <<"licensePlate", body.licensePlate>>,
       <<"faultDescription", body.faultDescription>>,
       <<"location", IF Falsy(body.location) THEN Null ELSE body.location>>,
       <<"photos", Arr(photoFiles)>>,
       <<"ownerSignature", ownerSignFile>>,
       <<"technicianSignature", technicianSignFile>>,
       <<"createdAt", ToISOString(t)>>,
       <<"status", Attended>> >>

\* lines 80-92
ReportData(body, reportId, photoFiles, ownerSignFile, technicianSignFile, t) ==
    << <<"id", IdStr(reportId)>>,
       <<"ownerName", body.ownerName>>,
       <<"phoneNumber", body.phoneNumber>>,
       <<"licensePlate", body.licensePlate>>,
       <<"faultDescription", body.faultDescription>>,
       <<"location", IF Falsy(body.location) THEN Null ELSE body.location>>,
       <<"photos", Arr(photoFiles)>>,
       <<"ownerSignature", ownerSignFile>>,
       <<"technicianSignature", technicianSignFile>>,
       <<"createdAt", ToISOString(t)>>,
       <<"status", Pending>> >>

\* the stages of lines 64-74 without the save of technicianSignature
NextStageOneSignature(stage, photos, i) ==
    IF stage = "photos"
    THEN IF IsArray(photos) /\ i <= Len(photos[2]) THEN "photos"
         ELSE "ownerSign"
    ELSE "record"

\* lines 64-74: what the handler saves after `stage` (photo i being the next
\* of the photos loop), "record" once both signatures are saved
NextStage(stage, photos, i) ==
    IF stage = "photos"
    THEN IF IsArray(photos) /\ i <= Len(photos[2]) THEN "photos"
         ELSE "ownerSign"
    ELSE IF stage = "ownerSign" THEN "techSign"
    ELSE "record"

\* lines 64-96, from the locals `st` left by the last await up to the next
\* one: either the next attachment's saveBase64Image runs up to its
\* fs.writeFile (or throws, which the handler answers with 400), or the
\* record is built and its fs.writeFile begun.
PostProceed(p, st) ==
    LET stage == NextStage(st.stage, st.body.photos, st.i)
    IN  IF stage = "record"
        THEN LET reportId == uuidv4 IN
               /\ proc' = [proc EXCEPT ![p] =
                     [pc |-> "writeRecord", body |-> st.body,
                      reportId |-> reportId,
                      reportData |-> ReportData(st.body, reportId, st.photoFiles,
                                        st.ownerSignFile, st.technicianSignFile, now),
                      att |-> st.att]]
               /\ issued' = issued \cup {reportId}
               /\ Silent /\ UNCHANGED named
        ELSE \E r \in 0..(RandBound - 1) :
               LET base64String ==
                       CASE stage = "photos" -> st.body.photos[2][st.i]
                         [] stage = "ownerSign" -> st.body.ownerSignature
                         [] stage = "techSign" -> st.body.technicianSignature
                   prefix ==
                       CASE stage = "photos" -> "photo"
                         [] stage = "ownerSign" -> "ownerSign"
                         [] stage = "techSign" -> "techSign"
                   s == saveBase64Image(base64String, prefix, now, r)
               IN  IF s.throws
                   THEN /\ Respond(p, "POST", 400, [error |-> s.message],
                                   [body |-> st.body, att |-> st.att])
                        /\ proc' = [proc EXCEPT ![p] = Idle]
                        /\ UNCHANGED <<issued, named>>
                   ELSE /\ proc' = [proc EXCEPT ![p] =
                              [st EXCEPT !.pc = "saveWrite", !.stage = stage,
                                         !.filepath = s.filepath,
                                         !.buffer = s.buffer]]
                        /\ named' = Write(named, s.filepath,
                               IF s.filepath \in DOMAIN named
                               THEN named[s.filepath] + 1 ELSE 1)
                        /\ Silent /\ UNCHANGED issued

\* lines 40-61: the request arrives; a failed check is answered with 400
\* and its message, otherwise ensureDirs() begins.
PostRequest(p, body) ==
    /\ Free(p)
    /\ LET message == Validate(body)
       IN  IF message # NoError
           THEN /\ Quiet
                /\ Respond(p, "POST", 400, [error |-> message],
                           [body |-> body, att |-> <<>>])
                /\ UNCHANGED <<proc, counters>>
           ELSE /\ nPosts < MaxPosts /\ nReqs < MaxRequests
                /\ nPosts' = nPosts + 1
                /\ nReqs' = nReqs + 1
                /\ proc' = [proc EXCEPT ![p] =
                      [pc |-> "mkdirReports", body |-> body]]
                /\ Silent
    /\ UNCHANGED <<store, now, issued, history>>

PostStart(p) == \E body \in Bodies : PostRequest(p, body)

\* line 18
PostMkdirReports(p) ==
    /\ proc[p].pc = "mkdirReports"
    /\ reportsDir' = TRUE
    /\ proc' = [proc EXCEPT ![p].pc = "mkdirUploads"]
    /\ Silent
    /\ UNCHANGED <<uploadsDir, reports, uploads, now, issued, counters, history>>

\* line 19, then the handler up to its first save
PostMkdirUploads(p) ==
    /\ proc[p].pc = "mkdirUploads"
    /\ uploadsDir' = TRUE
    /\ PostProceed(p, [pc |-> "mkdirUploads", body |-> proc[p].body,
                       stage |-> "photos", i |-> 1, photoFiles |-> <<>>,
                       ownerSignFile |-> Undefined,
                       technicianSignFile |-> Undefined,
                       filepath |-> <<>>, buffer |-> <<>>, att |-> <<>>])
    /\ UNCHANGED <<reportsDir, reports, uploads, now, counters, created,
                   putCount>>

\* line 35 and the return of line 36, then the handler up to its next await
PostSaveWrite(p) ==
    /\ proc[p].pc = "saveWrite"
    /\ uploads' = Write(uploads, proc[p].filepath, proc[p].buffer)
    /\ LET st == proc[p]
           file == UploadRef(st.filepath)
           base64String ==
               CASE st.stage = "photos" -> st.body.photos[2][st.i]
                 [] st.stage = "ownerSign" -> st.body.ownerSignature
                 [] st.stage = "techSign" -> st.body.technicianSignature
           att == Append(st.att, <<file, base64String>>)
       IN  PostProceed(p,
             CASE st.stage = "photos" ->
                    [st EXCEPT !.photoFiles = Append(st.photoFiles, file),
                               !.i = st.i + 1, !.att = att]
               [] st.stage = "ownerSign" ->
                    [st EXCEPT !.ownerSignFile = file, !.att = att]
               [] st.stage = "techSign" ->
                    [st EXCEPT !.technicianSignFile = file, !.att = att])
    /\ UNCHANGED <<reportsDir, uploadsDir, reports, now, counters, created,
                   putCount>>

\* lines 95-98
PostWriteRecord(p) ==
    /\ proc[p].pc = "writeRecord"
    /\ LET st == proc[p]
       IN  /\ reports' = Write(reports, ReportPath(st.reportId),
                               JSONstringify(st.reportData))
           /\ Respond(p, "POST", 201, [reportId |-> st.reportId],
                      [body |-> st.body, att |-> st.att])
           /\ created' = Write(created, st.reportId,
                               [data |-> st.reportData, att |-> st.att,
                                nPhotos |-> Len(st.reportData[7][2][2])])
    /\ proc' = [proc EXCEPT ![p] = Idle]
    /\ UNCHANGED <<reportsDir, uploadsDir, uploads, now, issued, counters, named,
                   putCount>>

(* ----------------------------- GET /reports --------------------------- *)
ReadError == "Error reading reports"

\* line 115 without the back-fill
BackfillNone(report) == report

\* line 115
Backfill(report) ==
    IF Falsy(Get(report, "status")) THEN Put(report, "status", Pending)
    ELSE report

\* lines 109-122, from the locals left by the last await up to the next
\* fs.readFile, or to the response when no file is left.  `files` are the
\* names of the listing not yet visited; the listing's order is the
\* filesystem's.
GetProceed(p, files, acc, seen) ==
    LET json == {f \in files : EndsWithJson(f)}
    IN  IF json = {}
        THEN /\ Respond(p, "GET", 200, acc, seen)
             /\ proc' = [proc EXCEPT ![p] = Idle]
        ELSE /\ \E file \in json :
                  proc' = [proc EXCEPT ![p] =
                     [pc |-> "readFile", file |-> file,
                      files |-> json \ {file}, reports |-> acc, seen |-> seen]]
             /\ Silent

\* line 106 begins
GetStart(p) ==
    /\ Free(p) /\ nReqs < MaxRequests
    /\ nReqs' = nReqs + 1
    /\ proc' = [proc EXCEPT ![p] = [pc |-> "readdir",
                                    seen |-> [ids |-> DOMAIN created,
                                              puts |-> putCount]]]
    /\ Silent
    /\ UNCHANGED <<store, now, issued, nPosts, history>>

\* line 106 ends: the listing, or ENOENT
GetReaddir(p) ==
    /\ proc[p].pc = "readdir"
    /\ IF ~reportsDir
       THEN /\ Respond(p, "GET", 500, [error |-> ReadError], proc[p].seen)
            /\ proc' = [proc EXCEPT ![p] = Idle]
       ELSE GetProceed(p, DOMAIN reports, <<>>, proc[p].seen)
    /\ UNCHANGED <<store, now, issued, counters, history>>

\* lines 111-117
GetReadFile(p) ==
    /\ proc[p].pc = "readFile"
    /\ LET st == proc[p]
           content == reports[st.file]
       IN  IF ~ParseOk(content)
           THEN /\ Respond(p, "GET", 500, [error |-> ReadError], st.seen)
                /\ proc' = [proc EXCEPT ![p] = Idle]
           ELSE GetProceed(p, st.files,
                           Append(st.reports, Backfill(JSONparse(content))),
                           st.seen)
    /\ UNCHANGED <<store, now, issued, counters, history>>

(* ------------------------ PUT /reports/:id/status --------------------- *)
UpdateError == "Error actualizando el estado del reporte"

Statuses == {Pending, Attended, Str(<<"archived">>), Undefined}
\* the identifiers a client may name: in a fresh deployment LegacyId names
\* no record, and neither does an identifier not issued yet
RequestIds == {LegacyId} \cup NewIds

\* line 133 accepting any status
ValidStatusAny(status) == TRUE

\* ['pending', 'attended'].includes(status)
ValidStatus(status) == status = Pending \/ status = Attended

\* lines 130-141: an invalid status is answered with 400, otherwise
\* fs.access begins
PutRequest(p, reportId, status) ==
    /\ Free(p)
    /\ IF ~ValidStatus(status)
       THEN /\ Quiet
            /\ Respond(p, "PUT", 400, [error |-> "Estado invalido"],
                       [reportId |-> reportId, status |-> status])
            /\ UNCHANGED <<proc, nReqs>>
       ELSE /\ nReqs < MaxRequests
            /\ nReqs' = nReqs + 1
            /\ proc' = [proc EXCEPT ![p] =
                  [pc |-> "access", reportId |-> reportId, status |-> status]]
            /\ Silent
    /\ UNCHANGED <<store, now, issued, nPosts, history>>

PutStart(p) ==
    \E reportId \in RequestIds, status \in Statuses :
        PutRequest(p, reportId, status)

\* lines 141-146: 404 when the file does not exist, otherwise fs.readFile
\* begins
PutAccess(p) ==
    /\ proc[p].pc = "access"
    /\ IF ReportPath(proc[p].reportId) \notin DOMAIN reports
       THEN /\ Respond(p, "PUT", 404, [error |-> "Reporte no encontrado"],
                       [reportId |-> proc[p].reportId,
                        status |-> proc[p].status])
            /\ proc' = [proc EXCEPT ![p] = Idle]
       ELSE /\ proc' = [proc EXCEPT ![p].pc = "read"]
            /\ Silent
    /\ UNCHANGED <<store, now, issued, counters, history>>

\* history: the status updates that have rewritten the record so far
Updates(reportId) ==
    IF reportId \in DOMAIN putCount THEN putCount[reportId] ELSE 0

\* line 150 writing a record rebuilt from the identifier and the status
SetStatusOnly(reportData, status) ==
    << <<"id", Get(reportData, "id")>>, <<"status", status>> >>

\* line 150 leaving the status that was read
SetStatusStale(reportData, status) ==
    IF Get(reportData, "status") = Undefined
    THEN Put(reportData, "status", Pending)
    ELSE reportData

\* line 150
SetStatus(reportData, status) == Put(reportData, "status", status)

\* lines 146-153: the record is read and parsed, its status set and
\* fs.writeFile begun
PutRead(p) ==
    /\ proc[p].pc = "read"
    /\ LET st == proc[p]
           content == reports[ReportPath(st.reportId)]
       IN  IF ~ParseOk(content)
           THEN /\ Respond(p, "PUT", 500, [error |-> UpdateError],
                           [reportId |-> st.reportId, status |-> st.status])
                /\ proc' = [proc EXCEPT ![p] = Idle]
           ELSE /\ proc' = [proc EXCEPT ![p] =
                      [pc |-> "write", reportId |-> st.reportId,
                       status |-> st.status, base |-> Updates(st.reportId),
                       reportData |-> SetStatus(JSONparse(content), st.status)]]
                /\ Silent
    /\ UNCHANGED <<store, now, issued, counters, history>>

\* lines 153-155
PutWrite(p) ==
    /\ proc[p].pc = "write"
    /\ LET st == proc[p]
       IN  /\ reports' = Write(reports, ReportPath(st.reportId),
                               JSONstringify(st.reportData))
           /\ Respond(p, "PUT", 200, st.reportData,
                      [reportId |-> st.reportId, status |-> st.status,
                       base |-> st.base])
           /\ putCount' = Write(putCount, st.reportId,
                                Updates(st.reportId) + 1)
    /\ proc' = [proc EXCEPT ![p] = Idle]
    /\ UNCHANGED <<reportsDir, uploadsDir, uploads, now, issued, counters,
                   created, named>>

(* ---------------------------- specification --------------------------- *)
Next ==
    \/ Tick
    \/ \E p \in Procs : PostStart(p)
    \/ \E p \in Procs : PostMkdirReports(p)
    \/ \E p \in Procs : PostMkdirUploads(p)
    \/ \E p \in Procs : PostSaveWrite(p)
    \/ \E p \in Procs : PostWriteRecord(p)
    \/ \E p \in Procs : GetStart(p)
    \/ \E p \in Procs : GetReaddir(p)
    \/ \E p \in Procs : GetReadFile(p)
    \/ \E p \in Procs : PutStart(p)
    \/ \E p \in Procs : PutAccess(p)
    \/ \E p \in Procs : PutRead(p)
    \/ \E p \in Procs : PutWrite(p)

Spec == Init /\ [][Next]_vars

(* ------------------------------ I/O errors ---------------------------- *)
\* error.message of a rejected fs call: the errno, the call and the path
IOErrorMessage == "EIO: i/o error, open '/srv/app/reports/1.json'"

\* what a failed fs.writeFile may leave behind
Truncated == <<"partial">>

\* The handlers answer an I/O error the same way whatever other requests are
\* doing: with I/O errors the model serves one request at a time, and
\* MaxFaultyRequests of them in a run.
Sequential ==
    /\ Cardinality({p \in Procs : proc[p].pc # "idle"}) <= 1
    /\ nReqs <= MaxFaultyRequests

\* An awaited fs call of the POST handler rejects: the catch of line 99
\* answers 400 with error.message.  A write that fails leaves the file
\* untouched or truncated.
PostIOError(p) ==
    /\ proc[p].pc \in {"mkdirReports", "mkdirUploads", "saveWrite", "writeRecord"}
    /\ LET st == proc[p]
       IN  /\ Answer(p, "POST", 400, [error |-> IOErrorMessage],
                     [body |-> st.body,
                      att |-> IF st.pc \in {"saveWrite", "writeRecord"}
                              THEN st.att ELSE <<>>], TRUE)
           /\ \/ UNCHANGED <<reports, uploads>>
              \/ /\ st.pc = "saveWrite"
                 /\ uploads' = Write(uploads, st.filepath, <<>>)
                 /\ UNCHANGED reports
              \/ /\ st.pc = "writeRecord"
                 /\ reports' = Write(reports, ReportPath(st.reportId), Truncated)
                 /\ UNCHANGED uploads
    /\ proc' = [proc EXCEPT ![p] = Idle]
    /\ UNCHANGED <<reportsDir, uploadsDir, now, issued, counters, history>>

\* fs.readdir or fs.readFile of the GET handler rejects: line 124
GetIOError(p) ==
    /\ proc[p].pc \in {"readdir", "readFile"}
    /\ Answer(p, "GET", 500, [error |-> ReadError], proc[p].seen, TRUE)
    /\ proc' = [proc EXCEPT ![p] = Idle]
    /\ UNCHANGED <<store, now, issued, counters, history>>

\* An awaited fs call of the PUT handler rejects: whatever fs.access rejects
\* with is answered 404 (line 142), the rest 500 (line 157)
PutIOError(p) ==
    /\ proc[p].pc \in {"access", "read", "write"}
    /\ LET st == proc[p]
           req == [reportId |-> st.reportId, status |-> st.status]
       IN  /\ IF st.pc = "access"
              THEN Answer(p, "PUT", 404, [error |-> "Reporte no encontrado"],
                          req, TRUE)
              ELSE Answer(p, "PUT", 500, [error |-> UpdateError], req, TRUE)
           /\ \/ UNCHANGED reports
              \/ /\ st.pc = "write"
                 /\ reports' = Write(reports, ReportPath(st.reportId), Truncated)
    /\ proc' = [proc EXCEPT ![p] = Idle]
    /\ UNCHANGED <<reportsDir, uploadsDir, uploads, now, issued, counters,
                   history>>

NextIO ==
    \/ Next /\ Sequential'
    \/ \E p \in Procs : PostIOError(p)
    \/ \E p \in Procs : GetIOError(p)
    \/ \E p \in Procs : PutIOError(p)

SpecIO == Init /\ [][NextIO]_vars

(* ============================== properties ============================ *)
\* What the statements below read off a request, a record or a response.

CoreFields ==
    {"id", "ownerName", "phoneNumber", "licensePlate", "faultDescription",
     "location", "photos", "ownerSignature", "technicianSignature", "createdAt"}

SameButStatus(a, b) == \A k \in CoreFields : Get(a, k) = Get(b, k)

IsStatus(v) == v = Str(<<"pending">>) \/ v = Str(<<"attended">>)

\* the record persisted for id
Stored(id) == reports[<<id, ".json">>][2]
Persisted(id) == <<id, ".json">> \in DOMAIN reports

\* the status a reader sees in a record: pending when the field is absent
StatusOf(record) ==
    IF Get(record, "status") = Undefined THEN Str(<<"pending">>)
    ELSE Get(record, "status")

\* the entries of a list of reports that carry id
EntriesFor(list, id) == {i \in 1..Len(list) : Get(list[i], "id") = Str(<<id>>)}

\* missing, or shorter than n
Short(v, n) == v[1] # "str" \/ Len(v[2]) < n

\* the first required-field rule a submission breaks, 0 when it breaks none
FailedRule(b) ==
    IF Short(b.ownerName, 2) THEN 1
    ELSE IF Short(b.phoneNumber, 1) THEN 2
    ELSE IF Short(b.licensePlate, 3) THEN 3
    ELSE IF Short(b.faultDescription, 10) THEN 4
    ELSE IF Short(b.ownerSignature, 1) THEN 5
    ELSE IF Short(b.technicianSignature, 1) THEN 6
    ELSE 0

RuleField(rule) ==
    <<"ownerName", "phoneNumber", "licensePlate", "faultDescription",
      "ownerSignature", "technicianSignature">>[rule]

\* the field an error message names
FieldNamed(message) ==
    CASE message = "ownerName invalido" -> "ownerName"
      [] message = "phoneNumber requerido" -> "phoneNumber"
      [] message = "licensePlate invalido" -> "licensePlate"
      [] message = "faultDescription invalido" -> "faultDescription"
      [] message = "ownerSignature requerida" -> "ownerSignature"
      [] message = "technicianSignature requerida" -> "technicianSignature"
      [] OTHER -> "none"

\* the attachments of a submission, in the order they are saved
AttachmentsOf(b) ==
    (IF b.photos[1] = "arr" THEN b.photos[2] ELSE <<>>)
    \o <<b.ownerSignature, b.technicianSignature>>

\* data:<mime>;base64,<payload>
WellFormed(v) ==
    /\ v[1] = "str"
    /\ \E i \in 3..(Len(v[2]) - 1) : v[2][1] = "data:" /\ v[2][i] = ";base64,"

\* the position of the first malformed attachment, 0 when there is none
FirstMalformed(b) ==
    LET a == AttachmentsOf(b)
        bad == {i \in 1..Len(a) : ~WellFormed(a[i])}
    IN  IF bad = {} THEN 0 ELSE Min(bad)

ValidSubmission(b) == FailedRule(b) = 0 /\ FirstMalformed(b) = 0

\* a reference /uploads/<filename> to a file that exists
Resolves(ref) ==
    /\ ref[1] = "str" /\ Len(ref[2]) > 1
    /\ ref[2][1] = "/uploads/"
    /\ Tail(ref[2]) \in DOMAIN uploads

\* the attachment references of a record: its photos, then its signatures
RefsOf(record) ==
    (IF Get(record, "photos")[1] = "arr" THEN Get(record, "photos")[2] ELSE <<>>)
    \o <<Get(record, "ownerSignature"), Get(record, "technicianSignature")>>

\* the bytes each data URI of the model encodes: "ABC" and "A"
Decoded(uri) ==
    CASE uri = UriPngA -> <<65, 66, 67>>
      [] uri = UriJpegA -> <<65, 66, 67>>
      [] uri = UriPngB -> <<65>>

(* ---------------------------------------------------------------------- *)
\* C1: a valid submission is answered 201 with an identifier no persisted
\* report had; the record is persisted with createdAt set and status pending;
\* every GET /reports begun after the 201 is answered 200 and lists a record
\* with that identifier, createdAt set, and status pending unless a status
\* update of that identifier has succeeded.
C1_Responses ==
    /\ (resp.op = "POST" /\ ValidSubmission(resp.req.body)) => resp.code = 201
    /\ (resp.op = "POST" /\ resp.code = 201) =>
          /\ Persisted(resp.body.reportId)
          /\ Get(Stored(resp.body.reportId), "id") = Str(<<resp.body.reportId>>)
          /\ Get(Stored(resp.body.reportId), "createdAt")[1] = "str"
          /\ Get(Stored(resp.body.reportId), "status") = Str(<<"pending">>)
    /\ (resp.op = "GET" /\ resp.req.ids # {}) =>
          /\ resp.code = 200
          /\ \A id \in resp.req.ids :
                /\ EntriesFor(resp.body, id) # {}
                /\ \A i \in EntriesFor(resp.body, id) :
                      /\ Get(resp.body[i], "createdAt")[1] = "str"
                      /\ \/ Get(resp.body[i], "status") = Str(<<"pending">>)
                         \/ id \in DOMAIN putCount

C1_Fresh ==
    (resp'.op = "POST" /\ resp'.code = 201) =>
        /\ ~Persisted(resp'.body.reportId)
        /\ \A id \in DOMAIN created : id # resp'.body.reportId

C1_CreateThenList == []C1_Responses /\ [][C1_Fresh]_vars

\* C1 witness: a GET answered 200 that lists a report created by an earlier
\* POST, still pending.
C1_Witness ==
    /\ resp.op = "GET" /\ resp.code = 200
    /\ \E id \in resp.req.ids \cap NewIds :
          /\ id \notin DOMAIN putCount
          /\ \E i \in EntriesFor(resp.body, id) :
                Get(resp.body[i], "status") = Str(<<"pending">>)

(* ---------------------------------------------------------------------- *)
\* C2: a submission that breaks a required-field rule is answered 400 with
\* the message naming the first field that fails, in the order ownerName,
\* phoneNumber, licensePlate, faultDescription, ownerSignature,
\* technicianSignature; no record, attachment file or directory is created.
C2_Message ==
    (resp.op = "POST" /\ FailedRule(resp.req.body) # 0) =>
        /\ resp.code = 400
        /\ FieldNamed(resp.body.error) = RuleField(FailedRule(resp.req.body))

C2_Frame ==
    (resp'.op = "POST" /\ FailedRule(resp'.req.body) # 0) => UNCHANGED store

C2_InvalidRejected == []C2_Message /\ [][C2_Frame]_vars

\* C2 witness: a submission failing both the ownerName and the phoneNumber
\* rule is answered before any directory exists.
C2_Witness ==
    /\ resp.op = "POST" /\ resp.code = 400
    /\ FailedRule(resp.req.body) = 1
    /\ Short(resp.req.body.phoneNumber, 1)
    /\ ~reportsDir /\ ~uploadsDir

(* ---------------------------------------------------------------------- *)
\* C3: a status update answered 200 returns and persists the record with the
\* new status; it changes no other field of that record, no other record and
\* no attachment; every persisted report's fields other than status equal
\* their values at creation; a GET during which no status update completes
\* lists each report it was begun after with its persisted status.
C3_Records ==
    /\ \A id \in DOMAIN created :
          Persisted(id) /\ SameButStatus(Stored(id), created[id].data)
    /\ (resp.op = "PUT" /\ resp.code = 200) =>
          /\ Get(resp.body, "status") = resp.req.status
          /\ Stored(resp.req.reportId) = resp.body
          /\ resp.req.reportId \in DOMAIN created
          /\ SameButStatus(resp.body, created[resp.req.reportId].data)
    /\ (resp.op = "GET" /\ resp.code = 200 /\ resp.req.puts = putCount) =>
          \A id \in resp.req.ids : \A i \in EntriesFor(resp.body, id) :
              /\ Get(resp.body[i], "status") = StatusOf(Stored(id))
              /\ SameButStatus(resp.body[i], Stored(id))

C3_Frame ==
    (resp'.op = "PUT" /\ resp'.code = 200) =>
        /\ UNCHANGED <<reportsDir, uploadsDir, uploads>>
        /\ DOMAIN reports' = DOMAIN reports
        /\ \A f \in DOMAIN reports :
              f # <<resp'.req.reportId, ".json">> => reports'[f] = reports[f]

C3_StatusOnly == []C3_Records /\ [][C3_Frame]_vars

\* C3 witness: a report created by POST is set to attended.
C3_Witness ==
    /\ resp.op = "PUT" /\ resp.code = 200
    /\ resp.req.reportId \in NewIds
    /\ resp.req.status = Str(<<"attended">>)
    /\ Get(Stored(resp.req.reportId), "status") = Str(<<"attended">>)

(* ---------------------------------------------------------------------- *)
\* C4: a status update whose status is neither pending nor attended is
\* answered 400, one with a valid status for an identifier without a record
\* 404; neither creates a file nor changes a persisted record.
C4_Codes ==
    resp.op = "PUT" =>
        /\ ~IsStatus(resp.req.status) => resp.code = 400
        /\ (IsStatus(resp.req.status) /\ ~Persisted(resp.req.reportId)) =>
              resp.code = 404
        /\ resp.code = 404 => ~Persisted(resp.req.reportId)

C4_Frame ==
    (resp'.op = "PUT" /\ resp'.code \in {400, 404}) => UNCHANGED store

C4_RejectedUpdate == []C4_Codes /\ [][C4_Frame]_vars

\* C4 witness: an update to an invalid status, of a record that exists.
C4_Witness ==
    /\ resp.op = "PUT" /\ resp.code = 400
    /\ resp.req.status = Str(<<"archived">>)
    /\ Persisted(resp.req.reportId)

(* ---------------------------------------------------------------------- *)
\* C5: a submission that passes the required-field rules and has a malformed
\* attachment is answered 400 with the format error and no record is written
\* for it; the attachments before the malformed one (photos in order, then
\* ownerSignature, then technicianSignature) were written and stay on disk;
\* no file of uploads is ever removed; a record is written only with every
\* attachment of its submission already on disk.
C5_Malformed ==
    /\ (resp.op = "POST" /\ FailedRule(resp.req.body) = 0
                         /\ FirstMalformed(resp.req.body) # 0) =>
          /\ resp.code = 400
          /\ resp.body.error = "Invalid base64 string format"
          /\ Len(resp.req.att) = FirstMalformed(resp.req.body) - 1
          /\ \A i \in 1..Len(resp.req.att) :
                /\ resp.req.att[i][2] = AttachmentsOf(resp.req.body)[i]
                /\ Resolves(resp.req.att[i][1])
    /\ {f \in DOMAIN reports : f[2] = ".json"}
          = {<<id, ".json">> : id \in DOMAIN created}
    /\ \A id \in DOMAIN created :
          \A i \in 1..Len(RefsOf(Stored(id))) : Resolves(RefsOf(Stored(id))[i])

C5_Frame ==
    /\ (resp'.op = "POST" /\ resp'.code = 400) => reports' = reports
    /\ DOMAIN uploads \subseteq DOMAIN uploads'
    /\ (resp'.op = "POST" /\ resp'.code = 201) =>
          LET refs == RefsOf(reports'[<<resp'.body.reportId, ".json">>][2])
          IN  /\ Len(refs) = Len(AttachmentsOf(resp'.req.body))
              /\ \A i \in 1..Len(refs) : Resolves(refs[i])

C5_AllOrNothing == []C5_Malformed /\ [][C5_Frame]_vars

\* C5 witness: a create fails on its second photo, the first photo's file is
\* on disk and no record refers to it.
C5_Witness ==
    /\ resp.op = "POST" /\ resp.code = 400
    /\ resp.body.error = "Invalid base64 string format"
    /\ Len(resp.req.att) = 1
    /\ Resolves(resp.req.att[1][1])
    /\ \A id \in DOMAIN created :
          \A i \in 1..Len(RefsOf(Stored(id))) :
              RefsOf(Stored(id))[i] # resp.req.att[1][1]

(* ---------------------------------------------------------------------- *)
\* C6: every report a GET /reports returns has status pending or attended;
\* every record the service has written carries one of the two; a legacy
\* record without status is returned as pending while its file stays without
\* status until a status update rewrites it.
C6_StatusDomain ==
    /\ (resp.op = "GET" /\ resp.code = 200) =>
          \A i \in 1..Len(resp.body) : IsStatus(Get(resp.body[i], "status"))
    /\ \A id \in DOMAIN created :
          (id \in NewIds \/ id \in DOMAIN putCount) =>
              IsStatus(Get(Stored(id), "status"))
    /\ (LegacyId \in DOMAIN created /\ LegacyId \notin DOMAIN putCount) =>
          Get(Stored(LegacyId), "status") = Undefined

\* C6 witness: a GET returns the legacy record as pending and its file still
\* has no status.
C6_Witness ==
    /\ resp.op = "GET" /\ resp.code = 200
    /\ \E i \in EntriesFor(resp.body, LegacyId) :
          Get(resp.body[i], "status") = Str(<<"pending">>)
    /\ Get(Stored(LegacyId), "status") = Undefined

(* ---------------------------------------------------------------------- *)
\* C7: a status update with a valid status of a record that exists is
\* answered 200, however its steps interleave with those of other requests;
\* the record persisted by its write is well formed, carries its status and
\* differs from the record it replaces in nothing but status; a step changes
\* a record file only as the write of an update of that identifier, and
\* creates one only as the write of a create.
C7_Answers ==
    /\ (resp.op = "PUT" /\ IsStatus(resp.req.status)
                        /\ Persisted(resp.req.reportId)) =>
          /\ resp.code = 200
          /\ Get(Stored(resp.req.reportId), "status") = resp.req.status
    /\ \A f \in DOMAIN reports :
          f[2] = ".json" =>
              /\ reports[f][1] = "json"
              /\ \A k \in CoreFields : Get(reports[f][2], k) # Undefined
              /\ Get(reports[f][2], "id") = Str(<<f[1]>>)

C7_Step ==
    \A f \in DOMAIN reports' :
        IF f \notin DOMAIN reports
        THEN resp'.op = "POST" /\ resp'.code = 201
                /\ f = <<resp'.body.reportId, ".json">>
        ELSE reports'[f] # reports[f] =>
                /\ resp'.op = "PUT" /\ resp'.code = 200
                /\ f = <<resp'.req.reportId, ".json">>
                /\ SameButStatus(reports'[f][2], reports[f][2])

C8_GenericFailure ==
    resp.io =>
        /\ resp.code = 500
        /\ resp.body.error # IOErrorMessage

(* ---------------------------------------------------------------------- *)
\* C9: every GET /reports during which no filesystem read fails, the one of
\* the initial state included, is answered 200 with one entry per report
\* persisted when it began, and a report created with N photos has N entries
\* in photos.
C9_ListsAll ==
    (resp.op = "GET" /\ ~resp.io) =>
        /\ resp.code = 200
        /\ \A id \in resp.req.ids :
              /\ Cardinality(EntriesFor(resp.body, id)) = 1
              /\ \A i \in EntriesFor(resp.body, id) :
                    Len(Get(resp.body[i], "photos")[2]) = created[id].nPhotos

(* ---------------------------------------------------------------------- *)
\* C10: every attachment reference of a persisted report resolves
\* to a file holding that attachment's decoded bytes, and no two attachments
\* were given the same filename.
C10_Exclusive ==
    /\ \A id \in DOMAIN created :
          \A i \in 1..Len(created[id].att) :
              /\ Resolves(created[id].att[i][1])
              /\ uploads[Tail(created[id].att[i][1][2])]
                    = Decoded(created[id].att[i][2])
    /\ \A f \in DOMAIN named : named[f] = 1
====
